---- MODULE Spec2Model ----
(***************************************************************************)
(* A model of the VCNL4040 driver (src/vcnl4040.py): the three register    *)
(* accessors (UnaryStruct / ROUnaryStruct, RWBit, RWBits), the register    *)
(* map of class VCNL4040, the constructor, the light-integration-time      *)
(* setter and the latched interrupt cache.                                 *)
(*                                                                         *)
(* The device is a bank of 16-bit registers `mem`; the bus transport       *)
(* (i2c.readfrom_mem_into / i2c.writeto_mem) moves `len(buffer)` bytes,    *)
(* low byte first, between a register and a Python bytearray.  A bytearray *)
(* is a function on 0 .. len-1, so that Python's indices are kept and an   *)
(* index outside the domain is the IndexError Python raises.               *)
(*                                                                         *)
(* Every accessor fills its whole buffer from the bus before it looks at   *)
(* it (lines 65, 110, 114, 146, 158), so a descriptor's buffer carries     *)
(* nothing from one call to the next: the atomic calls keep it local, and  *)
(* SpecRace, where a call is cut at its bus transactions, keeps it in ctx. *)
(* lux and white are floating-point products of two reads and are left     *)
(* out; sleep() is counted in whole milliseconds.                          *)
(***************************************************************************)
EXTENDS Integers, Sequences, FiniteSets, TLC

VARIABLES
    mem,                     \* device registers: address -> 16-bit word
    phase,                   \* "new" (before __init__), "ready", "failed"
    cached_interrupt_state,  \* self.cached_interrupt_state: offset -> BOOLEAN
    call,                    \* the last driver call: [op, field, arg]
    ret,                     \* what it returned (None is -1, a bool is 0/1)
    err,                     \* the exception it raised, or "none"
    bus,                     \* the bus transactions it issued, in order
    slept,                   \* the milliseconds it spent in sleep()
    seen,                    \* history: per offset, the refreshes that found its
                             \* status bit set since the flag was last consumed
    ctx                      \* two execution contexts inside RWBit.__set__

vars == <<mem, phase, cached_interrupt_state, call, ret, err, bus, slept, seen, ctx>>

---------------------------------------------------------------------------
(* Integer arithmetic of the source: <<, >>, &, |, & ~.                     *)

RECURSIVE BitAnd(_, _)
BitAnd(a, b) ==
    IF a = 0 \/ b = 0 THEN 0
    ELSE (a % 2) * (b % 2) + 2 * BitAnd(a \div 2, b \div 2)

RECURSIVE BitOr(_, _)
BitOr(a, b) ==
    IF a = 0 THEN b
    ELSE IF b = 0 THEN a
    ELSE (IF a % 2 = 1 \/ b % 2 = 1 THEN 1 ELSE 0) + 2 * BitOr(a \div 2, b \div 2)

\* x & ~m on Python's unbounded integers, for x >= 0 and m >= 0
AndNot(x, m) == x - BitAnd(x, m)

Shl(x, n) == x * (2 ^ n)

Shr(x, n) == x \div (2 ^ n)

---------------------------------------------------------------------------
(* The bus transport, as the accessors use it.                             *)

Byte == 256

\* bytearray(n): n zero bytes
bytearray(n) == [i \in 0 .. n - 1 |-> 0]

len(buffer) == Cardinality(DOMAIN buffer)

\* i2c.readfrom_mem_into(address, register, buffer): fills len(buffer) bytes
readfrom_mem_into(m, register, buffer) ==
    [i \in DOMAIN buffer |-> Shr(m[register], 8 * i) % Byte]

RECURSIVE WordOf(_, _)
WordOf(buffer, n) ==
    IF n = 0 THEN 0 ELSE WordOf(buffer, n - 1) + Shl(buffer[n - 1], 8 * (n - 1))

\* i2c.writeto_mem(address, register, buffer): the register takes the bytes
writeto_mem(m, register, buffer) ==
    [m EXCEPT ![register] = WordOf(buffer, len(buffer))]

BusRead(register, buffer) ==
    [op |-> "r", reg |-> register, data |-> buffer]

BusWrite(register, buffer) ==
    [op |-> "w", reg |-> register, data |-> buffer]

\* What a call hands back: the registers after it, its return value, its
\* exception and its bus transactions.
Outcome(m, r, e, b) == [m |-> m, ret |-> r, err |-> e, bus |-> b]

None == -1

Bool(b) == IF b THEN 1 ELSE 0

---------------------------------------------------------------------------
(* UnaryStruct and ROUnaryStruct: a whole register through a struct format.*)

\* struct.calcsize(format); the register map uses "<H" only
calcsize(format) == IF format = "<H" THEN 2 ELSE 1

UnaryStruct(register_address, struct_format) ==
    [kind |-> "UnaryStruct", register |-> register_address, format |-> struct_format]

ROUnaryStruct(register_address, struct_format) ==
    [kind |-> "ROUnaryStruct", register |-> register_address, format |-> struct_format]

\* struct.unpack_from(format, buf, offset)[0]: little-endian unsigned
unpack_from(format, buf, offset) ==
    WordOf([i \in 0 .. calcsize(format) - 1 |-> buf[offset + i]], calcsize(format))

\* The offset struct.pack_into is given in UnaryStruct.__set__
PackOffset == 1

\* struct.pack_into(format, buf, offset, value): the value's bytes at
\* buf[offset ..], or an error when they do not fit or the value is out of
\* the format's range
pack_into(format, buf, offset, value) ==
    IF offset + calcsize(format) > len(buf) \/ value < 0 \/ value >= 2 ^ (8 * calcsize(format))
    THEN [err |-> "struct.error", buf |-> buf]
    ELSE [err |-> "none",
          buf |-> [i \in DOMAIN buf |->
                     IF i >= offset /\ i < offset + calcsize(format)
                     THEN Shr(value, 8 * (i - offset)) % Byte
                     ELSE buf[i]]]

UnaryStruct_get(d, m) ==
    LET buf == readfrom_mem_into(m, d.register, bytearray(calcsize(d.format)))
    IN  Outcome(m, unpack_from(d.format, buf, 0), "none", <<BusRead(d.register, buf)>>)

UnaryStruct_set(d, m, value) ==
    LET packed == pack_into(d.format, bytearray(calcsize(d.format)), PackOffset, value)
    IN  IF packed.err # "none"
        THEN Outcome(m, None, packed.err, <<>>)
        ELSE Outcome(writeto_mem(m, d.register, packed.buf), None, "none",
                     <<BusWrite(d.register, packed.buf)>>)

ROUnaryStruct_set(d, m, value) == Outcome(m, None, "AttributeError", <<>>)

---------------------------------------------------------------------------
(* RWBit: one bit of a register, by read-modify-write.                     *)

RWBit(register_address, bit, register_width, lsb_first) ==
    [kind     |-> "RWBit",
     bit_mask |-> Shl(1, bit % 8),
     width    |-> register_width,
     register |-> register_address,
     byte     |-> IF lsb_first THEN bit \div 8 ELSE register_width - (bit \div 8) - 1]

RWBit_get(d, m) ==
    LET buffer == readfrom_mem_into(m, d.register, bytearray(d.width))
    IN  Outcome(m, Bool(BitAnd(buffer[d.byte], d.bit_mask) # 0), "none",
                <<BusRead(d.register, buffer)>>)

\* as RWBit_modify, assigning the mask where the source ors it in
RWBit_modify_assign(d, buffer, value) ==
    [buffer EXCEPT ![d.byte] = IF value THEN d.bit_mask ELSE 0]

\* as RWBit_modify, on a cleared buffer instead of the bytes read
RWBit_modify_cleared(d, buffer, value) ==
    [i \in DOMAIN buffer |-> IF i = d.byte /\ value THEN d.bit_mask ELSE 0]

\* The modify step of RWBit.__set__ on the buffer read from the bus
RWBit_modify(d, buffer, value) ==
    [buffer EXCEPT ![d.byte] = IF value THEN BitOr(@, d.bit_mask)
                                        ELSE AndNot(@, d.bit_mask)]

RWBit_set(d, m, value) ==
    LET buffer == readfrom_mem_into(m, d.register, bytearray(d.width))
        after  == RWBit_modify(d, buffer, value)
    IN  Outcome(writeto_mem(m, d.register, after), None, "none",
                <<BusRead(d.register, buffer), BusWrite(d.register, after)>>)

---------------------------------------------------------------------------
(* RWBits: a field of several bits, by read-modify-write.                  *)

RWBits(num_bits, register_address, lowest_bit, register_width, lsb_first) ==
    [kind       |-> "RWBits",
     bit_mask   |-> Shl(Shl(1, num_bits) - 1, lowest_bit),
     lowest_bit |-> lowest_bit,
     width      |-> register_width,
     lsb_first  |-> lsb_first,
     register   |-> register_address]

\* range(start, stop, step) for step = 1 or -1, as a sequence
range(start, stop, step) ==
    IF step > 0 THEN [k \in 1 .. (IF stop > start THEN stop - start ELSE 0) |-> start + k - 1]
    ELSE [k \in 1 .. (IF start > stop THEN start - stop ELSE 0) |-> start - k + 1]

reversed(order) == [k \in 1 .. Len(order) |-> order[Len(order) + 1 - k]]

\* for i in order: reg = (reg << 8) | buffer[i - shift], from the left
RECURSIVE Assemble(_, _, _, _)
Assemble(buffer, order, shift, n) ==
    IF n = 0 THEN 0
    ELSE BitOr(Shl(Assemble(buffer, order, shift, n - 1), 8), buffer[order[n] - shift])

\* for i in order: buffer[i] = reg & 0xFF; reg >>= 8
RECURSIVE Disassemble(_, _, _, _)
Disassemble(buffer, order, reg, k) ==
    IF k > Len(order) THEN buffer
    ELSE Disassemble([buffer EXCEPT ![order[k]] = BitAnd(reg, Byte - 1)],
                     order, Shr(reg, 8), k + 1)

\* The indices RWBits.__get__ reads the buffer at: buffer[i - 1] for i in order
GetOrder(d) ==
    IF d.lsb_first THEN range(d.width, 0, -1) ELSE reversed(range(d.width, 0, -1))

\* The indices RWBits.__set__ reads and writes the buffer at: buffer[i]
SetOrder(d) ==
    IF d.lsb_first THEN range(d.width, 0, -1) ELSE range(0, d.width, 1)

RWBits_get(d, m) ==
    LET buffer == readfrom_mem_into(m, d.register, bytearray(d.width))
        reg    == Assemble(buffer, GetOrder(d), 1, d.width)
    IN  Outcome(m, Shr(BitAnd(reg, d.bit_mask), d.lowest_bit), "none",
                <<BusRead(d.register, buffer)>>)

RWBits_set(d, m, value) ==
    LET shifted == Shl(value, d.lowest_bit)
        buffer  == readfrom_mem_into(m, d.register, bytearray(d.width))
        order   == SetOrder(d)
    IN  IF \E k \in 1 .. Len(order) : order[k] \notin DOMAIN buffer
        THEN \* self.buffer[i] with i = len(self.buffer)
             Outcome(m, None, "IndexError", <<BusRead(d.register, buffer)>>)
        ELSE LET reg   == BitOr(AndNot(Assemble(buffer, order, 0, Len(order)), d.bit_mask),
                                shifted)
                 after == Disassemble(buffer, reversed(order), reg, 1)
             IN  Outcome(writeto_mem(m, d.register, after), None, "none",
                         <<BusRead(d.register, buffer), BusWrite(d.register, after)>>)

---------------------------------------------------------------------------
(* The register map of class VCNL4040.                                     *)

ALS_IF_L == 13

ALS_IF_H == 12

PS_IF_CLOSE == 9

PS_IF_AWAY == 8

_device_id == UnaryStruct(12, "<H")

proximity == ROUnaryStruct(8, "<H")

proximity_shutdown == RWBit(3, 0, 2, TRUE)

proximity_integration_time == RWBits(3, 3, 1, 2, TRUE)

proximity_interrupt == RWBits(2, 3, 8, 2, TRUE)

proximity_bits == RWBit(3, 11, 2, TRUE)

proximity_low_threshold == UnaryStruct(6, "<H")

proximity_high_threshold == UnaryStruct(7, "<H")

interrupt_state == ROUnaryStruct(11, "<H")

led_current == RWBits(3, 4, 8, 2, TRUE)

led_duty_cycle == RWBits(2, 3, 6, 2, TRUE)

light == ROUnaryStruct(9, "<H")

light_shutdown == RWBit(0, 0, 2, TRUE)

_light_integration_time == RWBits(2, 0, 6, 2, TRUE)

light_interrupt == RWBit(0, 1, 2, TRUE)

light_low_threshold == UnaryStruct(2, "<H")

light_high_threshold == UnaryStruct(1, "<H")

_raw_white == ROUnaryStruct(10, "<H")

white_shutdown == RWBit(4, 15, 2, TRUE)

\* The class attribute a name stands for
Field(name) ==
    CASE name = "_device_id" -> _device_id
      [] name = "proximity" -> proximity
      [] name = "proximity_shutdown" -> proximity_shutdown
      [] name = "proximity_integration_time" -> proximity_integration_time
      [] name = "proximity_interrupt" -> proximity_interrupt
      [] name = "proximity_bits" -> proximity_bits
      [] name = "proximity_low_threshold" -> proximity_low_threshold
      [] name = "proximity_high_threshold" -> proximity_high_threshold
      [] name = "interrupt_state" -> interrupt_state
      [] name = "led_current" -> led_current
      [] name = "led_duty_cycle" -> led_duty_cycle
      [] name = "light" -> light
      [] name = "light_shutdown" -> light_shutdown
      [] name = "_light_integration_time" -> _light_integration_time
      [] name = "light_interrupt" -> light_interrupt
      [] name = "light_low_threshold" -> light_low_threshold
      [] name = "light_high_threshold" -> light_high_threshold
      [] name = "_raw_white" -> _raw_white
      [] name = "white_shutdown" -> white_shutdown

RWBitNames ==
    {"proximity_shutdown", "proximity_bits", "light_shutdown", "light_interrupt",
     "white_shutdown"}

RWBitsNames ==
    {"proximity_integration_time", "proximity_interrupt", "led_current",
     "led_duty_cycle", "_light_integration_time"}

UnaryStructNames ==
    {"_device_id", "proximity_low_threshold", "proximity_high_threshold",
     "light_low_threshold", "light_high_threshold"}

ROUnaryStructNames == {"proximity", "interrupt_state", "light", "_raw_white"}

\* The registers the driver addresses
Addr == {Field(n).register :
           n \in RWBitNames \cup RWBitsNames \cup UnaryStructNames \cup ROUnaryStructNames}

\* descriptor __get__ / __set__ by the descriptor's class
Get(d, m) ==
    CASE d.kind = "RWBit" -> RWBit_get(d, m)
      [] d.kind = "RWBits" -> RWBits_get(d, m)
      [] OTHER -> UnaryStruct_get(d, m)

Set(d, m, value) ==
    CASE d.kind = "RWBit" -> RWBit_set(d, m, value # 0)
      [] d.kind = "RWBits" -> RWBits_set(d, m, value)
      [] d.kind = "UnaryStruct" -> UnaryStruct_set(d, m, value)
      [] OTHER -> ROUnaryStruct_set(d, m, value)

---------------------------------------------------------------------------
(* class VCNL4040: constructor, integration-time setter, interrupt cache.  *)

DEVICE_ID == 390

Offsets == {ALS_IF_L, ALS_IF_H, PS_IF_CLOSE, PS_IF_AWAY}

NoInterrupts == [o \in Offsets |-> FALSE]

\* as IdMatches, comparing the low byte only
IdMatches_low_byte(id) == id % Byte = DEVICE_ID % Byte

\* the comparison of VCNL4040.__init__ that lets construction go on
IdMatches(id) == id = DEVICE_ID

\* VCNL4040.__init__ on registers m: the outcome, and the new object's cache
__init__(m) ==
    LET id == Get(_device_id, m)
    IN  IF ~IdMatches(id.ret)
        THEN Outcome(m, None, "RuntimeError", id.bus)
        ELSE LET ps == Set(proximity_shutdown, m, 0)
                 ls == Set(light_shutdown, ps.m, 0)
                 ws == Set(white_shutdown, ls.m, 0)
             IN  Outcome(ws.m, None, "none", id.bus \o ps.bus \o ls.bus \o ws.bus)

\* new_interrupt_state & (1 << interrupt) > 0
StatusBit(status, interrupt) == BitAnd(status, Shl(1, interrupt)) > 0

\* as _update_interrupt_state, storing new_state whether set or not
_update_interrupt_state_store(m, cache) ==
    LET rd == Get(interrupt_state, m)
    IN  [cache |-> [o \in Offsets |-> StatusBit(rd.ret, o)],
         bus   |-> rd.bus,
         status |-> rd.ret]

\* VCNL4040._update_interrupt_state: the cache after one read of the status
_update_interrupt_state(m, cache) ==
    LET rd == Get(interrupt_state, m)
    IN  [cache |-> [o \in Offsets |-> IF StatusBit(rd.ret, o) THEN TRUE ELSE cache[o]],
         bus   |-> rd.bus,
         status |-> rd.ret]

\* as _get_and_clear_cached_interrupt_state, without the reset to False
_get_cached_interrupt_state(m, cache, interrupt_offset) ==
    LET up == _update_interrupt_state(m, cache)
    IN  [ret   |-> Bool(up.cache[interrupt_offset]),
         cache |-> up.cache,
         bus   |-> up.bus,
         status |-> up.status]

\* VCNL4040._get_and_clear_cached_interrupt_state(interrupt_offset)
_get_and_clear_cached_interrupt_state(m, cache, interrupt_offset) ==
    LET up == _update_interrupt_state(m, cache)
    IN  [ret   |-> Bool(up.cache[interrupt_offset]),
         cache |-> [up.cache EXCEPT ![interrupt_offset] = FALSE],
         bus   |-> up.bus,
         status |-> up.status]

\* as proximity_high_interrupt, consuming the other proximity flag
proximity_high_interrupt_away == PS_IF_AWAY

\* The interrupt properties, each the offset it consumes
proximity_high_interrupt == PS_IF_CLOSE

proximity_low_interrupt == PS_IF_AWAY

light_high_interrupt == ALS_IF_H

light_low_interrupt == ALS_IF_L

InterruptNames ==
    {"proximity_high_interrupt", "proximity_low_interrupt", "light_high_interrupt",
     "light_low_interrupt"}

InterruptOffset(name) ==
    CASE name = "proximity_high_interrupt" -> proximity_high_interrupt
      [] name = "proximity_low_interrupt" -> proximity_low_interrupt
      [] name = "light_high_interrupt" -> light_high_interrupt
      [] name = "light_low_interrupt" -> light_low_interrupt

\* (8 << it) * 10
ItMs(it) == Shl(8, it) * 10

\* The light_integration_time setter: the outcome and the milliseconds slept.
\* An exception of the read or of the write leaves before sleep().
light_integration_time_set(m, new_it) ==
    LET old   == Get(_light_integration_time, m)
        delay == ItMs(old.ret) + ItMs(new_it) + 1
        wr    == Set(_light_integration_time, m, new_it)
    IN  [out   |-> Outcome(wr.m, None, wr.err, old.bus \o wr.bus),
         slept |-> IF wr.err = "none" THEN delay ELSE 0]

---------------------------------------------------------------------------
(* Bounds and inputs.                                                      *)

\* register contents the runs start from: Pattern(0) .. Pattern(MaxPattern)
MaxPattern == 2

\* the history counter `seen` stops counting here
MaxSeen == 2

Pattern(i) == IF i = 0 THEN 65535 ELSE ((i - 1) * 40503) % 65536

Patterns == {Pattern(i) : i \in 0 .. MaxPattern}

\* every register gets a content of its own
Content(p, a) == (p + 4369 * a) % 65536

\* device ids: the right one, its neighbours, its byte swap, its low byte
\* alone, the extremes
Ids == {DEVICE_ID, DEVICE_ID + 1, DEVICE_ID - 1, 34305, 134, 0, 65535}

\* status words: every combination of the four flag bits, alone or among
\* the register's other bits
RECURSIVE FlagWord(_)
FlagWord(S) ==
    IF S = {} THEN 0
    ELSE LET o == CHOOSE x \in S : TRUE IN Shl(1, o) + FlagWord(S \ {o})

StatusNoise == Shl(1, 14) + Shl(1, 10) + Shl(1, 7) + 1

StatusVals ==
    {FlagWord(S) : S \in SUBSET {8, 9, 12, 13}}
        \cup {FlagWord(S) + StatusNoise : S \in {{}, {9}, {12}}}

\* values offered to a whole-register write
StructVals == {0, 4660, 65535}

\* values offered to a field by its width
FieldVals(d) ==
    CASE d.kind = "RWBit" -> {0, 1}
      [] d.kind = "RWBits" -> 0 .. (d.bit_mask \div Shl(1, d.lowest_bit))
      [] OTHER -> StructVals

IdleCtx ==
    [pc |-> [c \in 1 .. 2 |-> "idle"], field |-> [c \in 1 .. 2 |-> ""],
     value |-> [c \in 1 .. 2 |-> FALSE], buffer |-> [c \in 1 .. 2 |-> bytearray(2)],
     overlapped |-> FALSE]

NoCall == [op |-> "none", field |-> "", arg |-> 0]

Memory(p, id, st) ==
    [a \in Addr |-> CASE a = _device_id.register -> id
                      [] a = interrupt_state.register -> st
                      [] OTHER -> Content(p, a)]

\* Before the constructor runs: any register content, no object yet
Fresh(m) ==
    /\ mem = m
    /\ phase = "new"
    /\ cached_interrupt_state = NoInterrupts
    /\ seen = [o \in Offsets |-> 0]
    /\ call = NoCall
    /\ ret = None
    /\ err = "none"
    /\ bus = <<>>
    /\ slept = 0
    /\ ctx = IdleCtx

---------------------------------------------------------------------------
(* The driver's calls, each one atomic.                                    *)

Returns(c, o) ==
    /\ call' = c
    /\ mem' = o.m
    /\ ret' = o.ret
    /\ err' = o.err
    /\ bus' = o.bus

\* sensor = VCNL4040(i2c)
Construct ==
    /\ phase = "new"
    /\ LET o == __init__(mem)
       IN  /\ Returns([op |-> "init", field |-> "", arg |-> 0], o)
           /\ phase' = IF o.err = "none" THEN "ready" ELSE "failed"
    /\ cached_interrupt_state' = NoInterrupts
    /\ slept' = 0
    /\ UNCHANGED <<seen, ctx>>

\* x = sensor.<name>
Read(name) ==
    /\ phase = "ready"
    /\ Returns([op |-> "get", field |-> name, arg |-> 0], Get(Field(name), mem))
    /\ slept' = 0
    /\ UNCHANGED <<phase, cached_interrupt_state, seen, ctx>>

\* sensor.<name> = v
Write(name, v) ==
    /\ phase = "ready"
    /\ Returns([op |-> "set", field |-> name, arg |-> v], Set(Field(name), mem, v))
    /\ slept' = 0
    /\ UNCHANGED <<phase, cached_interrupt_state, seen, ctx>>

\* x = sensor.light_integration_time
GetLightIntegrationTime ==
    /\ phase = "ready"
    /\ Returns([op |-> "get", field |-> "light_integration_time", arg |-> 0],
               Get(_light_integration_time, mem))
    /\ slept' = 0
    /\ UNCHANGED <<phase, cached_interrupt_state, seen, ctx>>

\* sensor.light_integration_time = new_it
SetLightIntegrationTime(new_it) ==
    /\ phase = "ready"
    /\ LET r == light_integration_time_set(mem, new_it)
       IN  /\ Returns([op |-> "set", field |-> "light_integration_time", arg |-> new_it],
                      r.out)
           /\ slept' = r.slept
    /\ UNCHANGED <<phase, cached_interrupt_state, seen, ctx>>

Count(n) == IF n < MaxSeen THEN n + 1 ELSE n

\* sensor._update_interrupt_state()
Refresh ==
    /\ phase = "ready"
    /\ LET up == _update_interrupt_state(mem, cached_interrupt_state)
       IN  /\ Returns([op |-> "refresh", field |-> "", arg |-> 0],
                      Outcome(mem, None, "none", up.bus))
           /\ cached_interrupt_state' = up.cache
           /\ seen' = [o \in Offsets |->
                         IF StatusBit(up.status, o) THEN Count(seen[o]) ELSE seen[o]]
    /\ slept' = 0
    /\ UNCHANGED <<phase, ctx>>

\* x = sensor.<name> for one of the four interrupt properties; the call
\* records how often the flag had been found set before it
Consume(name) ==
    /\ phase = "ready"
    /\ LET off == InterruptOffset(name)
           r   == _get_and_clear_cached_interrupt_state(mem, cached_interrupt_state, off)
       IN  /\ Returns([op |-> "consume", field |-> name, arg |-> seen[off]],
                      Outcome(mem, r.ret, "none", r.bus))
           /\ cached_interrupt_state' = r.cache
           /\ seen' = [o \in Offsets |->
                         IF o = off THEN 0
                         ELSE IF StatusBit(r.status, o) THEN Count(seen[o]) ELSE seen[o]]
    /\ slept' = 0
    /\ UNCHANGED <<phase, ctx>>

\* The sensor changes its interrupt status register: an event sets bits, a
\* read or an acknowledgement clears them
HwEvent(st) ==
    /\ mem[interrupt_state.register] # st
    /\ mem' = [mem EXCEPT ![interrupt_state.register] = st]
    /\ call' = [op |-> "hw", field |-> "", arg |-> 0]
    /\ ret' = None
    /\ err' = "none"
    /\ bus' = <<>>
    /\ slept' = 0
    /\ UNCHANGED <<phase, cached_interrupt_state, seen, ctx>>

AllNames == RWBitNames \cup RWBitsNames \cup UnaryStructNames \cup ROUnaryStructNames

---------------------------------------------------------------------------
(* SpecRegisters: the constructor and the register accessors.              *)

InitRegisters == \E p \in Patterns, id \in Ids : Fresh(Memory(p, id, Content(p, 11)))

NextRegisters ==
    \/ Construct
    \/ \E name \in AllNames : Read(name)
    \/ \E name \in AllNames : \E v \in FieldVals(Field(name)) : Write(name, v)
    \/ GetLightIntegrationTime
    \/ \E new_it \in 0 .. 3 : SetLightIntegrationTime(new_it)

SpecRegisters == InitRegisters /\ [][NextRegisters]_vars

---------------------------------------------------------------------------
(* SpecInterrupts: the constructor and the interrupt cache, with the       *)
(* sensor changing its status register at any time.                        *)

InitInterrupts == \E id \in Ids, st \in StatusVals : Fresh(Memory(Pattern(1), id, st))

NextInterrupts ==
    \/ Construct
    \/ Refresh
    \/ \E name \in InterruptNames : Consume(name)
    \/ \E st \in StatusVals : HwEvent(st)

SpecInterrupts == InitInterrupts /\ [][NextInterrupts]_vars

---------------------------------------------------------------------------
(* SpecWriteBit: one single-bit write from every content of the registers. *)
(* After construction the driver can set again the bits the constructor    *)
(* cleared, and every other bit is as the hardware had it, so each content *)
(* is one a constructed driver can meet.                                   *)

Ready(m) ==
    /\ mem = m
    /\ phase = "ready"
    /\ cached_interrupt_state = NoInterrupts
    /\ seen = [o \in Offsets |-> 0]
    /\ call = NoCall
    /\ ret = None
    /\ err = "none"
    /\ bus = <<>>
    /\ slept = 0
    /\ ctx = IdleCtx

InitWriteBit == \E p \in 0 .. 65535 : Ready(Memory(p, DEVICE_ID, Content(p, 11)))

NextWriteBit ==
    /\ call = NoCall
    /\ \E name \in RWBitNames : \E v \in {0, 1} : Write(name, v)

SpecWriteBit == InitWriteBit /\ [][NextWriteBit]_vars

---------------------------------------------------------------------------
(* SpecRace: two execution contexts, each in RWBit.__set__ of a field of   *)
(* its own, interleaved at the bus transactions.  The driver takes no lock.*)

Other(c) == 3 - c

InProgress(c) == ctx.pc[c] \in {"read", "write"}

\* sensor.<name> = value is entered (line 113)
RaceCall(c, name, value) ==
    /\ phase = "ready"
    /\ ctx.pc[c] = "idle"
    /\ ctx.field[Other(c)] # name
    /\ ctx' = [ctx EXCEPT !.pc[c] = "read", !.field[c] = name, !.value[c] = value,
                          !.overlapped = @ \/ InProgress(Other(c))]
    /\ call' = [op |-> "enter", field |-> name, arg |-> c]
    /\ bus' = <<>>
    /\ UNCHANGED <<mem, phase, cached_interrupt_state, ret, err, slept, seen>>

\* obj.i2c.readfrom_mem_into(obj.address, self.register, self.buffer) (line 114)
RaceRead(c) ==
    /\ ctx.pc[c] = "read"
    /\ LET d      == Field(ctx.field[c])
           buffer == readfrom_mem_into(mem, d.register, bytearray(d.width))
       IN  /\ ctx' = [ctx EXCEPT !.pc[c] = "write", !.buffer[c] = buffer]
           /\ bus' = <<BusRead(d.register, buffer)>>
    /\ call' = [op |-> "read", field |-> ctx.field[c], arg |-> c]
    /\ UNCHANGED <<mem, phase, cached_interrupt_state, ret, err, slept, seen>>

\* the bit is set or cleared in the buffer and the buffer written (lines 115-119)
RaceWrite(c) ==
    /\ ctx.pc[c] = "write"
    /\ LET d     == Field(ctx.field[c])
           after == RWBit_modify(d, ctx.buffer[c], ctx.value[c])
       IN  /\ mem' = writeto_mem(mem, d.register, after)
           /\ ctx' = [ctx EXCEPT !.pc[c] = "done", !.buffer[c] = after]
           /\ bus' = <<BusWrite(d.register, after)>>
    /\ call' = [op |-> "write", field |-> ctx.field[c], arg |-> c]
    /\ UNCHANGED <<phase, cached_interrupt_state, ret, err, slept, seen>>

\* a constructed driver: the registers as __init__ leaves them
InitRace ==
    \E p \in Patterns : Ready(__init__(Memory(p, DEVICE_ID, Content(p, 11))).m)

NextRace ==
    \E c \in 1 .. 2 :
        \/ \E name \in RWBitNames : \E value \in BOOLEAN : RaceCall(c, name, value)
        \/ RaceRead(c)
        \/ RaceWrite(c)

SpecRace == InitRace /\ [][NextRace]_vars

---------------------------------------------------------------------------
(* The claims.  Bits are taken here by division, not by the operators the  *)
(* model computes with.                                                    *)

BitOf(w, k) == (w \div (2 ^ k)) % 2

\* the 16-bit word a bus transaction carried, low byte first
Carried(t) == t.data[0] + 256 * t.data[1]

IsSet(names) == call.op = "set" /\ call.field \in names

\* C1: for every read-write multi-bit field and every v in 0 .. 2^num_bits - 1,
\* write(v) completes without error and a following read() returns v.
C1_WriteReadRoundTrip ==
    IsSet(RWBitsNames) => err = "none" /\ Get(Field(call.field), mem).ret = call.arg

\* C2: for every read-write whole-register field and every v in 0 .. 65535,
\* write(v) is exactly one bus write of the 2-byte little-endian encoding of
\* v, after which read() returns v.
C2_WholeRegisterWrite ==
    IsSet(UnaryStructNames \ {"_device_id"}) =>
        /\ err = "none"
        /\ Len(bus) = 1
        /\ bus[1].op = "w"
        /\ bus[1].reg = Field(call.field).register
        /\ DOMAIN bus[1].data = 0 .. 1
        /\ Carried(bus[1]) = call.arg
        /\ Get(Field(call.field), mem).ret = call.arg

\* C3: setting the light integration time from o to n writes n into bits
\* 6-7 of register 0x00 and then sleeps 10*(8<<o) + 10*(8<<n) + 1 ms; the
\* old setting o is what the call's first bus read carried.
C3_SetterWritesThenSleeps ==
    IsSet({"light_integration_time"}) =>
        /\ err = "none"
        /\ Len(bus) >= 1
        /\ LET o == (Carried(bus[1]) \div 64) % 4
           IN  slept = 10 * (8 * 2 ^ o) + 10 * (8 * 2 ^ call.arg) + 1
        /\ (mem[0] \div 64) % 4 = call.arg
        /\ bus[Len(bus)].op = "w"

\* C6: a write to a hardware read-only field (proximity, light, raw white,
\* device id, interrupt status) raises the immutable-field error, and no
\* call issues a bus write to 0x08 .. 0x0C.
C6_ReadOnlyRejected ==
    /\ IsSet({"proximity", "light", "_raw_white", "_device_id", "interrupt_state"})
           => err = "AttributeError"
    /\ \A k \in 1 .. Len(bus) : bus[k].op = "w" => bus[k].reg \notin 8 .. 12

\* C7: constructing the device when register 0x0C reads anything but 0x186
\* raises the device-not-found error after exactly one bus read, that of
\* 0x0C, and writes nothing: every register is as it was.
C7_BadIdNoWrites ==
    [][(call'.op = "init" /\ mem[12] # 390) =>
          /\ err' = "RuntimeError"
          /\ phase' = "failed"
          /\ Len(bus') = 1
          /\ bus'[1].op = "r"
          /\ bus'[1].reg = 12
          /\ mem' = mem]_vars

C7_Witness ==
    /\ call.op = "init"
    /\ err = "RuntimeError"
    /\ mem[12] = 391
    /\ BitOf(mem[0], 0) = 1 /\ BitOf(mem[4], 15) = 1

\* the register and the bit of each single-bit field, from the register map
BitPlace(name) ==
    CASE name = "proximity_shutdown" -> <<3, 0>>
      [] name = "proximity_bits" -> <<3, 11>>
      [] name = "light_shutdown" -> <<0, 0>>
      [] name = "light_interrupt" -> <<0, 1>>
      [] name = "white_shutdown" -> <<4, 15>>

\* C8: a single-bit write is one bus read of the whole 2-byte register and
\* then one bus write of the same width; the targeted bit takes the written
\* value, the other 15 bits stay as read (the word without the targeted
\* bit is the same before and after), every other register stays.
C8_BitWriteFrame ==
    [][(call'.op = "set" /\ call'.field \in RWBitNames) =>
          LET r == BitPlace(call'.field)[1]
              b == BitPlace(call'.field)[2]
          IN  /\ err' = "none"
              /\ Len(bus') = 2
              /\ bus'[1].op = "r" /\ bus'[1].reg = r /\ DOMAIN bus'[1].data = 0 .. 1
              /\ Carried(bus'[1]) = mem[r]
              /\ bus'[2].op = "w" /\ bus'[2].reg = r /\ DOMAIN bus'[2].data = 0 .. 1
              /\ Carried(bus'[2]) = mem'[r]
              /\ BitOf(mem'[r], b) = call'.arg
              /\ mem'[r] - BitOf(mem'[r], b) * 2 ^ b = mem[r] - BitOf(mem[r], b) * 2 ^ b
              /\ \A a \in Addr : a # r => mem'[a] = mem[a]]_vars

C8_Witness ==
    /\ call = [op |-> "set", field |-> "proximity_bits", arg |-> 0]
    /\ Len(bus) = 2
    /\ Carried(bus[1]) = 65535
    /\ mem[3] = 63487

BothDone == ctx.pc[1] = "done" /\ ctx.pc[2] = "done"

\* the bit of context c's field, as the register holds it now
HeldBit(c) == BitOf(mem[BitPlace(ctx.field[c])[1]], BitPlace(ctx.field[c])[2])

SameRegister == BitPlace(ctx.field[1])[1] = BitPlace(ctx.field[2])[1]

\* C10: two single-bit writes to different fields, issued from two contexts
\* with no lock between their bus transactions: when neither call is
\* entered while the other is in progress, the final registers hold both
\* updates.  (That an update is lost when they do overlap is C10_LostUpdate.)
C10_SerializedKeepsBoth ==
    (BothDone /\ ~ctx.overlapped) => \A c \in 1 .. 2 : HeldBit(c) = Bool(ctx.value[c])

\* both calls returned, both fields in one register, and one update is gone
C10_LostUpdate ==
    /\ BothDone
    /\ ctx.overlapped
    /\ SameRegister
    /\ ctx.field[1] = "proximity_shutdown" /\ ctx.field[2] = "proximity_bits"
    /\ HeldBit(1) # Bool(ctx.value[1])
    /\ HeldBit(2) = Bool(ctx.value[2])

\* the status word the last call read from register 0x0B
Observed == Carried(bus[1])

\* the status bit the device defines for each interrupt property
DeviceBit(name) ==
    CASE name = "proximity_high_interrupt" -> 9
      [] name = "proximity_low_interrupt" -> 8
      [] name = "light_high_interrupt" -> 12
      [] name = "light_low_interrupt" -> 13

\* the status bit the claim gives each interrupt property
ClaimedBit(name) ==
    CASE name = "proximity_high_interrupt" -> 8
      [] name = "proximity_low_interrupt" -> 9
      [] name = "light_high_interrupt" -> 12
      [] name = "light_low_interrupt" -> 13

\* C4, as stated: consume(PS_close) returns true once and then false on an
\* immediate re-consume with no change of the status register in between.
C4_Original ==
    [][(/\ call.op = "consume" /\ call.field = "proximity_high_interrupt" /\ ret = 1
        /\ call'.op = "consume" /\ call'.field = "proximity_high_interrupt")
          => ret' = 0]_vars

\* C4, amended: a consume returns true exactly when its own status read
\* reports the flag's bit or some refresh has found it set since the flag
\* was last consumed, and it leaves the latch clear; so however many
\* refreshes found the bit set, the consumes that follow return true once,
\* and an immediate re-consume returns false exactly when the register no
\* longer reports the bit.
C4_OneTruePerLatch ==
    call.op = "consume" =>
        /\ ret = Bool(BitOf(Observed, DeviceBit(call.field)) = 1 \/ call.arg > 0)
        /\ ~cached_interrupt_state[DeviceBit(call.field)]

\* PS_close found set by two refreshes, then consumed once with the register
\* no longer reporting it
C4_Witness ==
    /\ call = [op |-> "consume", field |-> "proximity_high_interrupt", arg |-> 2]
    /\ ret = 1
    /\ BitOf(Observed, 9) = 0

\* C5, as stated: PS_close is latched from bit 8, PS_away from bit 9,
\* ALS_high from bit 12, ALS_low from bit 13.
C5_Original ==
    (call.op = "consume" /\ call.arg = 0) => ret = BitOf(Observed, ClaimedBit(call.field))

\* C5, amended: PS_close (proximity_high_interrupt) is latched from bit 9
\* and PS_away (proximity_low_interrupt) from bit 8, ALS_high from bit 12,
\* ALS_low from bit 13: with nothing latched before, a consume returns true
\* exactly when the status word it reads has the flag's bit set.
C5_DeviceBits ==
    (call.op = "consume" /\ call.arg = 0) => ret = BitOf(Observed, DeviceBit(call.field))

C5_Witness ==
    /\ call = [op |-> "consume", field |-> "proximity_high_interrupt", arg |-> 0]
    /\ Observed = 512
    /\ ret = 1
    /\ cached_interrupt_state = NoInterrupts

\* C9: a latch goes to true only in a refresh that reads its status bit set,
\* goes back to false only in a consume of that same flag, and a consume of
\* a latched flag returns true whatever the status register reports then.
C9_LatchHolds ==
    [][\A o \in Offsets :
          LET consumed == call'.op = "consume" /\ DeviceBit(call'.field) = o
          IN  /\ (cached_interrupt_state[o] /\ ~cached_interrupt_state'[o]) => consumed
              /\ (~cached_interrupt_state[o] /\ cached_interrupt_state'[o]) =>
                     /\ call'.op \in {"refresh", "consume"}
                     /\ BitOf(mem[11], o) = 1
              /\ (cached_interrupt_state[o] /\ consumed) => ret' = 1]_vars

\* ALS_low, latched earlier, is consumed as true although the register the
\* consume reads no longer reports it, while PS_away stays pending
C9_Witness ==
    /\ call.op = "consume"
    /\ call.field = "light_low_interrupt"
    /\ call.arg >= 1
    /\ BitOf(Observed, 13) = 0
    /\ ret = 1
    /\ cached_interrupt_state[8]
    /\ BitOf(Observed, 8) = 0

====
